---- MODULE Spec2Model ----
(***************************************************************************)
(* Model of the csv-domain-checker engine:                                 *)
(*   src/email_checker.py  norm_url, host, fetch_html, compare_pair,       *)
(*                         process_async (the bounded worker pool)         *)
(*   src/app.py            the initial pass and the retry loop             *)
(*                                                                         *)
(* Python strings are sequences of one-character strings, so that strip,   *)
(* lower, startswith, urlparse and lstrip are computed character by        *)
(* character as the code computes them.  Python's None (and the float NaN  *)
(* pandas puts in a blank cell) is the value None below.                   *)
(***************************************************************************)
EXTENDS Integers, Sequences, FiniteSets, TLC

\* ------------------------------------------------------------------ bounds
NumRows == 2        \* rows of the table
MaxConc == 2        \* largest concurrency the sidebar offers in the model
MaxRetries == 2     \* largest number of retry rounds offered in the model

\* ----------------------------------------------------------------- strings
None == <<"None">>

Whitespace == {" "}

UpperToLower ==
  [H |-> "h", T |-> "t", P |-> "p", S |-> "s", W |-> "w", A |-> "a",
   C |-> "c", M |-> "m", E |-> "e", O |-> "o", B |-> "b"]

LowerChar(c) == IF c \in DOMAIN UpperToLower THEN UpperToLower[c] ELSE c

Lower(s) == [i \in 1..Len(s) |-> LowerChar(s[i])]

RECURSIVE LStripSet(_, _)
LStripSet(s, chars) ==
  IF s # <<>> /\ Head(s) \in chars THEN LStripSet(Tail(s), chars) ELSE s

RECURSIVE RStripSet(_, _)
RStripSet(s, chars) ==
  IF s # <<>> /\ s[Len(s)] \in chars
  THEN RStripSet(SubSeq(s, 1, Len(s) - 1), chars)
  ELSE s

Strip(s) == RStripSet(LStripSet(s, Whitespace), Whitespace)

StartsWith(s, p) == Len(s) >= Len(p) /\ SubSeq(s, 1, Len(p)) = p

HttpPrefix == <<"h", "t", "t", "p", ":", "/", "/">>
HttpsPrefix == <<"h", "t", "t", "p", "s", ":", "/", "/">>

norm_url_NoStrip(u) ==
  IF u = None \/ u = <<>> THEN None
  ELSE IF StartsWith(Lower(u), HttpPrefix) \/ StartsWith(Lower(u), HttpsPrefix)
  THEN u
  ELSE HttpPrefix \o u

\* norm_url: None for an absent, non-string or blank value; otherwise the
\* stripped value, with "http://" put in front when it has no http(s) scheme.
norm_url(u) ==
  IF u = None \/ Strip(u) = <<>> THEN None
  ELSE LET s == Strip(u) IN
       IF StartsWith(Lower(s), HttpPrefix) \/ StartsWith(Lower(s), HttpsPrefix)
       THEN s
       ELSE HttpPrefix \o s

\* str.find for one character: the first index of c in s, 0 when absent.
RECURSIVE FindChar(_, _, _)
FindChar(s, c, i) ==
  IF i > Len(s) THEN 0
  ELSE IF s[i] = c THEN i ELSE FindChar(s, c, i + 1)

NetlocDelims == {"/", "?", "#"}

RECURSIVE TakeUntil(_, _)
TakeUntil(s, delims) ==
  IF s = <<>> \/ Head(s) \in delims THEN <<>>
  ELSE <<Head(s)>> \o TakeUntil(Tail(s), delims)

\* urlparse(u).netloc for a URL of the form scheme://netloc[/?#]...
Netloc(u) ==
  LET i == FindChar(u, ":", 1)
      rest == IF i = 0 THEN u ELSE SubSeq(u, i + 1, Len(u))
  IN IF StartsWith(rest, <<"/", "/">>)
     THEN TakeUntil(SubSeq(rest, 3, Len(rest)), NetlocDelims)
     ELSE <<>>

\* The argument of lstrip("www.") is a set of characters, not a prefix.
WwwChars == {"w", "."}

host(u) == IF u = None \/ u = <<>> THEN <<>> ELSE LStripSet(Lower(Netloc(u)), WwwChars)

\* ------------------------------------------------------------ cell values
\* Values an "Email Domain" / "Company Domain" cell can hold.
U_Empty == <<>>
U_Blank == <<" ", " ">>
U_Acme == <<"h", "t", "t", "p", ":", "/", "/", "a", "c", "m", "e", ".", "c", "o", "m">>
U_WwwAcme == <<"h", "t", "t", "p", ":", "/", "/", "w", "w", "w", ".", "a", "c", "m", "e", ".", "c", "o", "m">>
U_Beta == <<"h", "t", "t", "p", ":", "/", "/", "b", "e", "t", "a", ".", "c", "o", "m">>
U_BetaBare == <<"b", "e", "t", "a", ".", "c", "o", "m">>
U_AcmeUpper == <<" ", "H", "T", "T", "P", "S", ":", "/", "/", "W", "W", "W", ".", "A", "c", "m", "e", ".", "c", "o", "m", "/", "a", "b", "o", "u", "t", " ">>
U_Wacme == <<"h", "t", "t", "p", ":", "/", "/", "w", "a", "c", "m", "e", ".", "c", "o", "m">>

RawURLs == {None, U_Empty, U_Blank, U_Acme, U_WwwAcme, U_Beta, U_BetaBare, U_AcmeUpper, U_Wacme}

\* The (Email Domain, Company Domain) pairs of the rows of the table.
RowPairs == {<<U_Acme, U_WwwAcme>>, <<U_Empty, U_Beta>>, <<U_Acme, U_Beta>>}

\* ------------------------------------------------------------- page fetcher
\* What the browser does with one page: page.route raises (kind "RouteError"),
\* page.goto times out ("PWTimeout"), page.goto raises another error ("Error"),
\* or the page loads ("Loaded") with its content and the response's status.
\* A status is kept as the text an f-string prints for it.
PageLoaded(content, status) == [kind |-> "Loaded", content |-> content, status |-> status]
PageTimeout == [kind |-> "PWTimeout", content |-> <<>>, status |-> "None"]
PageError == [kind |-> "Error", content |-> <<>>, status |-> "None"]
PageRouteError == [kind |-> "RouteError", content |-> <<>>, status |-> "None"]

Body_A == <<"A">>
Body_B == <<"B">>
Body_Blank == <<" ">>

\* Every outcome of a page the pair comparison is checked on.
PageResults ==
  {PageLoaded(Body_A, "200"), PageLoaded(Body_B, "200"), PageLoaded(Body_Blank, "200"),
   PageLoaded(Body_A, "None"), PageTimeout, PageError}

\* The outcomes the rows of the pool draw from.
PoolPageResults == {PageLoaded(Body_A, "200"), PageLoaded(Body_B, "200"), PageTimeout}

\* fetch_html raises instead of returning: page.route is outside the try.
fetch_raises(p) == p.kind = "RouteError"

\* fetch_html's returned dict (the key "final" is never read and is left out).
fetch_html(p) ==
  IF p.kind = "Loaded"
  THEN [ok |-> TRUE, html |-> Strip(p.content), err |-> "", status |-> p.status]
  ELSE IF p.kind = "PWTimeout"
  THEN [ok |-> FALSE, html |-> <<>>, err |-> "Timeout", status |-> "None"]
  ELSE [ok |-> FALSE, html |-> <<>>, err |-> p.kind, status |-> p.status]

NoOutcome == [ok |-> FALSE, html |-> <<>>, err |-> "", status |-> "None"]

\* ---------------------------------------------------------- pair comparator
\* A note is the sequence of the pieces its f-string joins.
MissingNote == <<"FetchErr:", "MissingURL">>

\* r['err'] or r['status']
err_or_status(res) == IF res.err # "" THEN res.err ELSE res.status

FetchErrNote(r1, r2) == <<"FetchErr:", err_or_status(r1), "|", err_or_status(r2)>>

\* compare_pair returns before opening a page: a URL did not normalise.
missing_url(email_url, comp_url) ==
  norm_url(email_url) = None \/ norm_url(comp_url) = None

same_host(email_url, comp_url) ==
  host(norm_url(email_url)) = host(norm_url(comp_url))

compare_decide_HostFirst(email_url, comp_url, r1, r2) ==
  IF same_host(email_url, comp_url) \/ r1.html = r2.html THEN <<(<<"Pass">>), TRUE>>
  ELSE IF ~r1.ok \/ ~r2.ok THEN <<FetchErrNote(r1, r2), FALSE>>
  ELSE IF r1.html = <<>> \/ r2.html = <<>> THEN <<(<<"EmptyBody">>), FALSE>>
  ELSE <<(<<"StillDiff">>), FALSE>>

compare_decide_EmptyFirst(email_url, comp_url, r1, r2) ==
  IF ~r1.ok \/ ~r2.ok THEN <<FetchErrNote(r1, r2), FALSE>>
  ELSE IF r1.html = <<>> \/ r2.html = <<>> THEN <<(<<"EmptyBody">>), FALSE>>
  ELSE IF same_host(email_url, comp_url) \/ r1.html = r2.html THEN <<(<<"Pass">>), TRUE>>
  ELSE <<(<<"StillDiff">>), FALSE>>

\* compare_pair's verdict <<note, passed>> once both fetches have returned.
compare_decide(email_url, comp_url, r1, r2) ==
  IF ~r1.ok \/ ~r2.ok THEN <<FetchErrNote(r1, r2), FALSE>>
  ELSE IF same_host(email_url, comp_url) \/ r1.html = r2.html THEN <<(<<"Pass">>), TRUE>>
  ELSE IF r1.html = <<>> \/ r2.html = <<>> THEN <<(<<"EmptyBody">>), FALSE>>
  ELSE <<(<<"StillDiff">>), FALSE>>

\* ------------------------------------------------------------------- state
VARIABLES
  df,                \* the table: row index -> its four cells
  concurrency,       \* sidebar: parallel browser tabs
  base_timeout_sec,  \* sidebar: base per-URL timeout, whole seconds
  timeout_mult,      \* sidebar: timeout multiplier, the fraction num/den
  retries,           \* sidebar: retry rounds
  ctlPc,             \* where app.py's "Run check" handler is
  r,                 \* round index: 0 the initial pass, then the loop's r
  poolPc,            \* where process_async is
  mask,              \* rows process_async was called on
  timeout_ms,        \* timeout_ms process_async was called with
  sem,               \* permits left in the semaphore
  task,              \* row -> position of its worker task
  fetch,             \* row -> the two fetch_html calls of its compare_pair
  results,           \* row -> verdict collected by its worker
  pages,             \* browser pages open
  calls,             \* row -> compare_pair calls, fetch_html calls, pages opened in this round
  prev_timeout_ms,   \* timeout_ms of the process_async call before this one
  cmpIn,             \* one compare_pair call on its own: its arguments and page outcomes
  cmpOut             \* ... and its verdict

vars ==
  <<df, concurrency, base_timeout_sec, timeout_mult, retries, ctlPc, r, poolPc,
    mask, timeout_ms, sem, task, fetch, results, pages, calls, prev_timeout_ms, cmpIn, cmpOut>>

cfgVars == <<concurrency, base_timeout_sec, timeout_mult, retries>>
pairVars == <<cmpIn, cmpOut>>
poolVars == <<poolPc, mask, timeout_ms, sem, task, fetch, results, pages, calls, prev_timeout_ms>>

Rows == 1..NumRows

RECURSIVE Pow(_, _)
Pow(b, e) == IF e = 0 THEN 1 ELSE b * Pow(b, e - 1)

\* int(base_timeout_sec * 1000)
base_timeout_ms == base_timeout_sec * 1000

\* int(base_timeout_sec * (timeout_mult ** n) * 1000): int() truncates.  The
\* multiplier is the exact fraction num/den; the rounding error of the
\* float product is left out.
retry_timeout_ms(n) ==
  (base_timeout_sec * 1000 * Pow(timeout_mult.num, n)) \div Pow(timeout_mult.den, n)

\* df["EmailMatch"].isin(["", "Fail"])
initial_mask == {i \in Rows : df[i].EmailMatch \in {"", "Fail"}}

\* df["EmailMatch"] == "Fail"
fails_mask_AnyVerdict == {i \in Rows : df[i].EmailMatch \in {"Pass", "Fail"}}
fails_mask == {i \in Rows : df[i].EmailMatch = "Fail"}

NoFetch == [st |-> "none", res |-> NoOutcome]
InFlightFetch == [st |-> "inflight", res |-> NoOutcome]
NoCalls == [compare |-> 0, fetch |-> 0, pages |-> 0]
NoVerdict == <<(<<>>), FALSE>>

\* The rows a table is built from: a same-host pair, a different-host pair
\* and a pair with a missing URL in columns just created (""), and rows an
\* earlier run left marked Pass or Fail.
Row(pair, match, note) ==
  [EmailURL |-> pair[1], CompanyURL |-> pair[2], EmailMatch |-> match, RetryNote |-> note]

SameHostRow == Row(<<U_Acme, U_WwwAcme>>, "", <<>>)
DiffHostRow == Row(<<U_Acme, U_Beta>>, "", <<>>)
MissingRow == Row(<<U_Empty, U_Beta>>, "", <<>>)

InitialRows ==
  {SameHostRow, DiffHostRow, MissingRow,
   Row(<<U_Acme, U_Beta>>, "Pass", <<"Pass">>),
   Row(<<U_Acme, U_Beta>>, "Fail", <<"StillDiff">>)}

\* The table of the retry runs: same-host, different-host and missing-URL
\* rows in turn, none checked yet.
ScenarioRows == <<SameHostRow, DiffHostRow, MissingRow>>
ScenarioTable == [i \in Rows |-> ScenarioRows[((i - 1) % Len(ScenarioRows)) + 1]]

\* The sidebar's schedules: (base seconds, multiplier) = (10, 2.0), (1, 1.25), (1, 1.0).
Schedules ==
  {[base |-> 10, mult |-> [num |-> 2, den |-> 1]],
   [base |-> 1, mult |-> [num |-> 5, den |-> 4]],
   [base |-> 1, mult |-> [num |-> 1, den |-> 1]]}
DefaultSchedule == [base |-> 10, mult |-> [num |-> 2, den |-> 1]]

PoolIdle ==
  /\ poolPc = "idle"
  /\ mask = {}
  /\ timeout_ms = 0
  /\ sem = 0
  /\ task = [i \in Rows |-> "idle"]
  /\ fetch = [i \in Rows |-> <<NoFetch, NoFetch>>]
  /\ results = [i \in Rows |-> NoVerdict]
  /\ pages = 0
  /\ calls = [i \in Rows |-> NoCalls]
  /\ prev_timeout_ms = 0

PairIdle ==
  /\ cmpIn = [email |-> None, comp |-> None, p1 |-> PageTimeout, p2 |-> PageTimeout]
  /\ cmpOut = [pc |-> "idle", verdict |-> NoVerdict, opened |-> 0, fetched |-> 0]

ControllerStart == ctlPc = "start" /\ r = 0

\* The runs come in two families, which keeps the worker interleavings of
\* every table apart from the growth of the notes over the retry rounds.
\* One pass (no retries) over every table, with every concurrency the model
\* offers, the invalid ones included.
InitSinglePass ==
  /\ df \in [Rows -> InitialRows]
  /\ concurrency \in -1..MaxConc
  /\ base_timeout_sec = DefaultSchedule.base
  /\ timeout_mult = DefaultSchedule.mult
  /\ retries = 0

\* Runs with retry rounds over the scenario table, with every schedule.
InitRetries ==
  /\ df = ScenarioTable
  /\ concurrency \in 1..MaxConc
  /\ \E s \in Schedules : base_timeout_sec = s.base /\ timeout_mult = s.mult
  /\ retries \in 1..MaxRetries

Init ==
  /\ InitSinglePass \/ InitRetries
  /\ ControllerStart
  /\ PoolIdle
  /\ PairIdle

\* ------------------------------------------------------------- worker pool
\* process_async up to the gather: the semaphore, the browser, one task per
\* selected row.  asyncio.Semaphore raises ValueError for a negative value.
PoolEnter(m, t) ==
  IF concurrency < 0
  THEN /\ ctlPc' = "crashed"
       /\ poolPc' = "rejected"
       /\ UNCHANGED <<mask, timeout_ms, sem, task, fetch, results, pages, calls, prev_timeout_ms>>
  ELSE /\ ctlPc' = "pool"
       /\ poolPc' = "running"
       /\ mask' = m
       /\ timeout_ms' = t
       /\ sem' = concurrency
       /\ task' = [i \in Rows |-> IF i \in m THEN "waiting" ELSE "idle"]
       /\ fetch' = [i \in Rows |-> <<NoFetch, NoFetch>>]
       /\ results' = [i \in Rows |-> NoVerdict]
       /\ pages' = 0
       /\ calls' = [i \in Rows |-> NoCalls]
       /\ prev_timeout_ms' = timeout_ms

first_waiting_Again(i) == task[i] = "waiting" \/ (task[i] = "done" /\ calls[i].compare < 2)

\* The tasks were created in row order and asyncio.Semaphore wakes its
\* waiters first come, first served: the next permit goes to the first row
\* still waiting.
first_waiting(i) == task[i] = "waiting" /\ \A j \in Rows : task[j] = "waiting" => i <= j

\* "async with sem" goes on without waiting only while a permit is left.
permit_always == TRUE
permit_free == sem > 0

\* A worker gets a permit and calls compare_pair, which returns at once when
\* a URL is missing (the permit is released again) and otherwise awaits its
\* two new pages.
Acquire(i) ==
  /\ poolPc = "running"
  /\ first_waiting(i)
  /\ permit_free
  /\ calls' = [calls EXCEPT ![i].compare = @ + 1]
  /\ IF missing_url(df[i].EmailURL, df[i].CompanyURL)
     THEN /\ results' = [results EXCEPT ![i] = <<MissingNote, FALSE>>]
          /\ task' = [task EXCEPT ![i] = "done"]
          /\ UNCHANGED sem
     ELSE /\ task' = [task EXCEPT ![i] = "opening"]
          /\ sem' = sem - 1
          /\ UNCHANGED results
  /\ UNCHANGED <<df, cfgVars, ctlPc, r, poolPc, mask, timeout_ms, fetch, pages, prev_timeout_ms, pairVars>>

\* Both pages are open; both fetch_html calls start.
NewPages(i) ==
  /\ poolPc = "running"
  /\ task[i] = "opening"
  /\ task' = [task EXCEPT ![i] = "fetching"]
  /\ fetch' = [fetch EXCEPT ![i] = <<InFlightFetch, InFlightFetch>>]
  /\ pages' = pages + 2
  /\ calls' = [calls EXCEPT ![i].pages = @ + 2, ![i].fetch = @ + 2]
  /\ UNCHANGED <<df, cfgVars, ctlPc, r, poolPc, mask, timeout_ms, sem, results, prev_timeout_ms, pairVars>>

\* browser.new_page raises: compare_pair and the worker raise, the
\* "async with sem" releases the permit.  The other new_page may have opened.
NewPageFault(i) ==
  /\ poolPc = "running"
  /\ task[i] = "opening"
  /\ task' = [task EXCEPT ![i] = "raised"]
  /\ sem' = sem + 1
  /\ \E k \in {0, 1} :
       /\ pages' = pages + k
       /\ calls' = [calls EXCEPT ![i].pages = @ + k]
  /\ UNCHANGED <<df, cfgVars, ctlPc, r, poolPc, mask, timeout_ms, fetch, results, prev_timeout_ms, pairVars>>

FetchReturn_CancelSibling(i, side) ==
  /\ poolPc = "running"
  /\ task[i] = "fetching"
  /\ fetch[i][side].st = "inflight"
  /\ \E p \in PoolPageResults :
       fetch' = IF p.kind = "PWTimeout"
                THEN [fetch EXCEPT ![i] = <<[st |-> "done", res |-> fetch_html(p)],
                                            [st |-> "done", res |-> fetch_html(p)]>>]
                ELSE [fetch EXCEPT ![i][side] = [st |-> "done", res |-> fetch_html(p)]]
  /\ UNCHANGED <<df, cfgVars, ctlPc, r, poolPc, mask, timeout_ms, sem, task, results, pages, calls, prev_timeout_ms, pairVars>>
\* One fetch_html call returns its dict.
FetchReturn(i, side) ==
  /\ poolPc = "running"
  /\ task[i] = "fetching"
  /\ fetch[i][side].st = "inflight"
  /\ \E p \in PoolPageResults :
       fetch' = [fetch EXCEPT ![i][side] = [st |-> "done", res |-> fetch_html(p)]]
  /\ UNCHANGED <<df, cfgVars, ctlPc, r, poolPc, mask, timeout_ms, sem, task, results, pages, calls, prev_timeout_ms, pairVars>>

\* One fetch_html call raises (page.route): the gather in compare_pair
\* raises, the pages stay open, the worker releases the permit.
FetchFault(i, side) ==
  /\ poolPc = "running"
  /\ task[i] = "fetching"
  /\ fetch[i][side].st = "inflight"
  /\ fetch_raises(PageRouteError)
  /\ task' = [task EXCEPT ![i] = "raised"]
  /\ fetch' = [fetch EXCEPT ![i] = <<NoFetch, NoFetch>>]
  /\ sem' = sem + 1
  /\ UNCHANGED <<df, cfgVars, ctlPc, r, poolPc, mask, timeout_ms, results, pages, calls, prev_timeout_ms, pairVars>>

ClosePages_WriteThrough(i) ==
  /\ poolPc = "running"
  /\ task[i] = "fetching"
  /\ fetch[i][1].st = "done"
  /\ fetch[i][2].st = "done"
  /\ pages' = pages - 2
  /\ fetch' = [fetch EXCEPT ![i] = <<NoFetch, NoFetch>>]
  /\ results' = [results EXCEPT ![i] =
       compare_decide(df[i].EmailURL, df[i].CompanyURL, fetch[i][1].res, fetch[i][2].res)]
  /\ df' = [df EXCEPT ![i].RetryNote = results'[i][1],
                      ![i].EmailMatch = IF results'[i][2] THEN "Pass" ELSE "Fail"]
  /\ task' = [task EXCEPT ![i] = "done"]
  /\ sem' = sem + 1
  /\ UNCHANGED <<cfgVars, ctlPc, r, poolPc, mask, timeout_ms, calls, prev_timeout_ms, pairVars>>
\* Both fetches returned: close the pages, decide, store the verdict,
\* release the permit.
ClosePages(i) ==
  /\ poolPc = "running"
  /\ task[i] = "fetching"
  /\ fetch[i][1].st = "done"
  /\ fetch[i][2].st = "done"
  /\ pages' = pages - 2
  /\ fetch' = [fetch EXCEPT ![i] = <<NoFetch, NoFetch>>]
  /\ results' = [results EXCEPT ![i] =
       compare_decide(df[i].EmailURL, df[i].CompanyURL, fetch[i][1].res, fetch[i][2].res)]
  /\ task' = [task EXCEPT ![i] = "done"]
  /\ sem' = sem + 1
  /\ UNCHANGED <<df, cfgVars, ctlPc, r, poolPc, mask, timeout_ms, calls, prev_timeout_ms, pairVars>>

\* "Write results back": both cells of every row that has a verdict.
write_back ==
  [i \in Rows |->
     IF task[i] = "done"
     THEN [df[i] EXCEPT !.RetryNote = results[i][1],
                        !.EmailMatch = IF results[i][2] THEN "Pass" ELSE "Fail"]
     ELSE df[i]]

PoolReturn_FirstDone ==
  /\ poolPc = "running"
  /\ \E i \in mask : task[i] = "done"
  /\ df' = write_back
  /\ poolPc' = "returned"
  /\ ctlPc' = "loop"
  /\ r' = r + 1
  /\ UNCHANGED <<cfgVars, mask, timeout_ms, sem, task, fetch, results, pages, calls, prev_timeout_ms, pairVars>>
\* The gather returns: every task finished without raising.  The browser is
\* closed, the results are written to the table, the caller goes on.
PoolReturn ==
  /\ poolPc = "running"
  /\ \A i \in mask : task[i] = "done"
  /\ df' = write_back
  /\ poolPc' = "returned"
  /\ ctlPc' = "loop"
  /\ r' = r + 1
  /\ UNCHANGED <<cfgVars, mask, timeout_ms, sem, task, fetch, results, pages, calls, prev_timeout_ms, pairVars>>

\* The gather raises the exception of a task that raised: the browser is
\* closed, process_async raises before writing anything back, and so does
\* run_until_complete in app.py.
PoolAbort ==
  /\ poolPc = "running"
  /\ \E i \in mask : task[i] = "raised"
  /\ poolPc' = "aborted"
  /\ ctlPc' = "crashed"
  /\ pages' = 0
  /\ UNCHANGED <<df, cfgVars, r, mask, timeout_ms, sem, task, fetch, results, calls, prev_timeout_ms, pairVars>>

\* ---------------------------------------------------------- retry controller
\* "Run check": the initial pass over the rows that are "" or "Fail".
StartCheck ==
  /\ ctlPc = "start"
  /\ IF initial_mask # {}
     THEN /\ PoolEnter(initial_mask, base_timeout_ms)
          /\ r' = 0
     ELSE /\ ctlPc' = "loop"
          /\ r' = 1
          /\ UNCHANGED poolVars
  /\ UNCHANGED <<df, cfgVars, pairVars>>

\* The loop ends when the range is used up or on "if not fails.any(): break".
loop_exits_BudgetOnly == r > retries
loop_exits == r > retries \/ fails_mask = {}

\* One iteration of "for r in range(1, retries + 1)".
RetryRound ==
  /\ ctlPc = "loop"
  /\ IF loop_exits
     THEN /\ ctlPc' = "done"
          /\ UNCHANGED <<r, poolVars>>
     ELSE /\ PoolEnter(fails_mask, retry_timeout_ms(r))
          /\ UNCHANGED r
  /\ UNCHANGED <<df, cfgVars, pairVars>>

Next ==
  \/ StartCheck
  \/ RetryRound
  \/ \E i \in Rows : Acquire(i)
  \/ \E i \in Rows : NewPages(i)
  \/ \E i \in Rows : NewPageFault(i)
  \/ \E i \in Rows, side \in {1, 2} : FetchReturn(i, side)
  \/ \E i \in Rows, side \in {1, 2} : FetchFault(i, side)
  \/ \E i \in Rows : ClosePages(i)
  \/ PoolReturn
  \/ PoolAbort

Spec == Init /\ [][Next]_vars

\* The same program under the scheduling asyncio gives it: the event loop
\* runs whatever is ready, and every awaited call of the browser completes or
\* raises, so a step is taken as long as one can be.  Whether a call raises
\* stays the browser's choice.
SpecLive == Init /\ [][Next]_vars /\ WF_vars(Next)
\* ------------------------------------------------- one compare_pair call
\* compare_pair on its own, on every cell value and every page outcome.
InitPair ==
  /\ cmpIn \in [email : RawURLs, comp : RawURLs,
                 p1 : PageResults \cup {PageRouteError}, p2 : PageResults \cup {PageRouteError}]
  /\ cmpOut = [pc |-> "start", verdict |-> NoVerdict, opened |-> 0, fetched |-> 0]
  /\ df = ScenarioTable
  /\ concurrency = 1
  /\ base_timeout_sec = DefaultSchedule.base
  /\ timeout_mult = DefaultSchedule.mult
  /\ retries = 0
  /\ ctlPc = "off"
  /\ r = 0
  /\ PoolIdle

\* compare_pair up to its fetches: it returns at once when a URL is missing,
\* otherwise it opens two pages and starts both fetch_html calls.
PairCall ==
  /\ cmpOut.pc = "start"
  /\ cmpOut' =
       IF missing_url(cmpIn.email, cmpIn.comp)
       THEN [cmpOut EXCEPT !.pc = "returned", !.verdict = <<MissingNote, FALSE>>]
       ELSE [cmpOut EXCEPT !.pc = "fetching", !.opened = 2, !.fetched = 2]
  /\ UNCHANGED <<df, cfgVars, ctlPc, r, poolVars, cmpIn>>

\* Both fetches are over: compare_pair raises when a fetch_html raised,
\* otherwise it returns its verdict.
PairReturn ==
  /\ cmpOut.pc = "fetching"
  /\ cmpOut' =
       IF fetch_raises(cmpIn.p1) \/ fetch_raises(cmpIn.p2)
       THEN [cmpOut EXCEPT !.pc = "raised"]
       ELSE [cmpOut EXCEPT !.pc = "returned",
                           !.verdict = compare_decide(cmpIn.email, cmpIn.comp,
                                                      fetch_html(cmpIn.p1), fetch_html(cmpIn.p2))]
  /\ UNCHANGED <<df, cfgVars, ctlPc, r, poolVars, cmpIn>>

NextPair == PairCall \/ PairReturn

SpecPair == InitPair /\ [][NextPair]_vars

\* ------------------------------------------------------------------ claims
in_flight == {i \in Rows : task[i] \in {"opening", "fetching"}}

\* C1: while process_async runs with concurrency K >= 1, at most K
\* comparisons are in flight; every other selected row has a task that
\* either waits for a permit without having called compare_pair, or is over;
\* no task exists for an unselected row.
C1_ConcurrencyBound ==
  (poolPc = "running" /\ concurrency >= 1) =>
    /\ Cardinality(in_flight) <= concurrency
    /\ \A i \in mask : task[i] \in {"waiting", "opening", "fetching", "done", "raised"}
    /\ \A i \in mask : task[i] = "waiting" => calls[i].compare = 0
    /\ \A i \in Rows \ mask : task[i] = "idle" /\ calls[i].compare = 0

\* C1 witness: all K permits are taken and a further selected row waits.
C1_Witness ==
  /\ poolPc = "running"
  /\ concurrency >= 1
  /\ Cardinality(in_flight) = concurrency
  /\ \E i \in mask : task[i] = "waiting"

\* C2 (as claimed): when a task of a round has raised and the round is over,
\* the pool returned normally, the faulting row is Fail with a note and every
\* other selected row has its verdict.
C2_FaultIsolated ==
  (poolPc # "running" /\ \E i \in mask : task[i] = "raised") =>
    /\ poolPc = "returned"
    /\ \A i \in mask :
         /\ df[i].EmailMatch \in {"Pass", "Fail"}
         /\ df[i].RetryNote # <<>>
         /\ task[i] = "raised" => df[i].EmailMatch = "Fail"

\* C3 (as claimed): once a process_async call is over, however it ended,
\* every row it selected is Pass or Fail and has a non-empty RetryNote.
C3_Exhaustive ==
  poolPc \in {"returned", "aborted"} =>
    \A i \in mask : df[i].EmailMatch \in {"Pass", "Fail"} /\ df[i].RetryNote # <<>>

\* C4: a compare_pair call that returns after a missing URL or a failed
\* fetch returns passed = false and a note that begins with "FetchErr:",
\* whatever the hosts and the HTML are.
C4_FailedFetchNeverPasses ==
  (/\ cmpOut.pc = "returned"
   /\ \/ missing_url(cmpIn.email, cmpIn.comp)
      \/ cmpIn.p1.kind # "Loaded"
      \/ cmpIn.p2.kind # "Loaded") =>
    /\ cmpOut.verdict[2] = FALSE
    /\ Head(cmpOut.verdict[1]) = "FetchErr:"

\* C4 witness: same host, both fetches failed (so both HTML strings are the
\* same empty string), and the call returned.
C4_Witness ==
  /\ cmpOut.pc = "returned"
  /\ cmpIn.email = U_Acme
  /\ cmpIn.comp = U_WwwAcme
  /\ cmpIn.p1 = PageTimeout
  /\ cmpIn.p2 = PageError

BothLoaded == cmpIn.p1.kind = "Loaded" /\ cmpIn.p2.kind = "Loaded"

Blank(u) == u = None \/ \A k \in 1..Len(u) : u[k] \in Whitespace

\* C6: when either cell is absent, empty or whitespace only, compare_pair
\* returns ("FetchErr:MissingURL", false) without opening a page or starting
\* a fetch, whatever the other cell is.
C6_MissingURLShortCircuit ==
  ((Blank(cmpIn.email) \/ Blank(cmpIn.comp)) /\ cmpOut.pc \notin {"idle", "start"}) =>
    /\ cmpOut.pc = "returned"
    /\ cmpOut.verdict = <<MissingNote, FALSE>>
    /\ cmpOut.opened = 0
    /\ cmpOut.fetched = 0

\* C6 witness: a whitespace-only email cell next to a good company URL.
C6_Witness ==
  /\ cmpOut.pc = "returned"
  /\ cmpIn.email = U_Blank
  /\ cmpIn.comp = U_Beta

\* C7: every step leaves the URL cells and the set of rows alone, changes
\* the EmailMatch and RetryNote of selected rows only, never changes a row
\* that is Pass, and never selects a row that is Pass.
C7_Frame ==
  [][/\ DOMAIN df' = DOMAIN df
     /\ \A i \in Rows :
          /\ df'[i].EmailURL = df[i].EmailURL
          /\ df'[i].CompanyURL = df[i].CompanyURL
          /\ i \notin mask => df'[i] = df[i]
          /\ df[i].EmailMatch = "Pass" => df'[i] = df[i]
          /\ (poolPc' = "running" /\ i \in mask') => df'[i].EmailMatch # "Pass"]_vars

\* C7 witness: a retry round has written its verdicts while a row that was
\* already Pass stayed out of it.
C7_Witness ==
  /\ poolPc = "returned"
  /\ r >= 2
  /\ \E i \in Rows \ mask : df[i].EmailMatch = "Pass"
  /\ \E j \in mask : df[j].EmailMatch = "Pass"

\* C8: once the controller is between rounds and no row is Fail, its next
\* step ends the run: no process_async call, no task, no write.
C8_EarlyConvergence ==
  [][(ctlPc \in {"loop", "done"} /\ fails_mask = {}) =>
       (ctlPc' = "done" /\ df' = df /\ poolVars' = poolVars /\ r' = r)]_vars

\* C8 witness: the run ended with retry budget left.
C8_Witness ==
  /\ ctlPc = "done"
  /\ r >= 2
  /\ r <= retries
  /\ fails_mask = {}

\* C9 (as claimed): round 0 runs with base_timeout_sec * 1000 ms, round
\* r >= 1 with exactly base_timeout_sec * 1000 * multiplier^r ms, and with a
\* multiplier above 1 each round's timeout exceeds the one before.
C9_RetryEscalation ==
  poolPc = "running" =>
    /\ r = 0 => timeout_ms = base_timeout_sec * 1000
    /\ r >= 1 =>
         timeout_ms * Pow(timeout_mult.den, r) = base_timeout_sec * 1000 * Pow(timeout_mult.num, r)
    /\ (r >= 1 /\ timeout_mult.num > timeout_mult.den) => timeout_ms > prev_timeout_ms

\* C10 (as claimed): with a concurrency of zero or less, process_async is
\* rejected before it starts a task, opens a page or writes a cell.
C10_ConfigRejected ==
  concurrency <= 0 =>
    /\ poolPc \in {"idle", "rejected"}
    /\ \A i \in Rows : task[i] = "idle" /\ calls[i] = NoCalls
    /\ pages = 0

\* C11 (as claimed): fetch_html never raises to compare_pair: for every page
\* whose fetch fails, at the route, the navigation or the content, it returns
\* a dict with ok = false and the error kind "Timeout" or another error kind,
\* so a compare_pair call that started its fetches returns.
C11_FetchNeverRaises ==
  (cmpOut.fetched > 0) =>
    /\ cmpOut.pc # "raised"
    /\ \A p \in {cmpIn.p1, cmpIn.p2} :
         p.kind # "Loaded" =>
           /\ ~fetch_raises(p)
           /\ ~fetch_html(p).ok
           /\ fetch_html(p).err # ""
           /\ (p.kind = "PWTimeout") <=> (fetch_html(p).err = "Timeout")

\* C12: when a process_async round has completed normally, every selected
\* row has had exactly one compare_pair call and its task is over, and no
\* unselected row has had any.
C12_ComparedExactlyOnce ==
  poolPc = "returned" =>
    /\ \A i \in mask : calls[i].compare = 1 /\ task[i] = "done"
    /\ \A i \in Rows \ mask : calls[i].compare = 0 /\ task[i] = "idle"

\* C12 witness: a round over some rows but not all of them has completed.
C12_Witness ==
  /\ poolPc = "returned"
  /\ mask # {}
  /\ Rows \ mask # {}
WwwLabel == <<"w", "w", "w", ".">>

\* A network location without one leading "www." label.
DropWwwLabel(s) == IF StartsWith(s, WwwLabel) THEN SubSeq(s, Len(WwwLabel) + 1, Len(s)) ELSE s

\* C13 (as claimed): for two URLs that normalise, host(u) is the lower-cased
\* network location with one leading "www." label removed and nothing else,
\* so the same-host test is true exactly when the two network locations are
\* equal after dropping one leading "www." label.
C13_HostDropsOneWwwLabel ==
  (cmpOut.pc \in {"fetching", "returned", "raised"} /\ ~missing_url(cmpIn.email, cmpIn.comp)) =>
    LET n1 == Lower(Netloc(norm_url(cmpIn.email)))
        n2 == Lower(Netloc(norm_url(cmpIn.comp)))
    IN /\ host(norm_url(cmpIn.email)) = DropWwwLabel(n1)
       /\ host(norm_url(cmpIn.comp)) = DropWwwLabel(n2)
       /\ same_host(cmpIn.email, cmpIn.comp) <=> (DropWwwLabel(n1) = DropWwwLabel(n2))

\* C14 (as claimed): with different hosts and both pages loaded, an empty
\* stripped body on either side, or on both, gives ("EmptyBody", false).
C14_EmptyBodyNeverPasses ==
  (/\ cmpOut.pc = "returned"
   /\ ~missing_url(cmpIn.email, cmpIn.comp)
   /\ BothLoaded
   /\ ~same_host(cmpIn.email, cmpIn.comp)
   /\ (Strip(cmpIn.p1.content) = <<>> \/ Strip(cmpIn.p2.content) = <<>>)) =>
    cmpOut.verdict = <<(<<"EmptyBody">>), FALSE>>

\* C15: the step on which a fetch ends in a timeout gives that side alone the
\* failed outcome "Timeout": the sibling fetch of the row, the fetches and
\* tasks of every other row, the permits and the pages are left as they are;
\* and the verdict of a row with a timed-out side is a Fail whose note has
\* "Timeout" on that side next to what the other side returned.
C15_TimeoutIsolated ==
  [][\A i \in Rows :
       /\ \A s \in {1, 2} :
            (fetch[i][s].st = "inflight" /\ fetch'[i][s].st = "done" /\ fetch'[i][s].res.err = "Timeout") =>
              /\ ~fetch'[i][s].res.ok
              /\ fetch'[i][3 - s] = fetch[i][3 - s]
              /\ \A j \in Rows \ {i} : fetch'[j] = fetch[j]
              /\ task' = task
              /\ results' = results
              /\ sem' = sem
              /\ pages' = pages
       /\ (task[i] = "fetching" /\ task'[i] = "done") =>
            \A s \in {1, 2} :
              fetch[i][s].res.err = "Timeout" =>
                /\ results'[i][2] = FALSE
                /\ results'[i][1] =
                     <<"FetchErr:",
                       IF s = 1 THEN "Timeout" ELSE err_or_status(fetch[i][1].res),
                       "|",
                       IF s = 2 THEN "Timeout" ELSE err_or_status(fetch[i][2].res)>>]_vars

\* C15 witness: a row whose first fetch timed out and whose second loaded
\* has its verdict while another row is still fetching.
C15_Witness ==
  /\ poolPc = "running"
  /\ \E i \in mask : task[i] = "done" /\ results[i] = <<(<<"FetchErr:", "Timeout", "|", "200">>), FALSE>>
  /\ \E j \in mask : task[j] = "fetching"

\* C16: a round starts only from the controller, and a retry round only
\* when the round before has returned: every task it selected is over, no
\* comparison is in flight, no page is open, the verdict of every row it
\* selected is in the table, and the new round's rows are the Fail rows of
\* that table.
C16_RoundBarrier ==
  [][(poolPc' = "running" /\ poolPc # "running") =>
       /\ poolPc \in {"idle", "returned"}
       /\ ctlPc \in {"start", "loop"}
       /\ \A i \in Rows : task[i] \in {"idle", "done"}
       /\ pages = 0
       /\ poolPc = "returned" =>
            /\ ctlPc = "loop"
            /\ \A i \in mask :
                 /\ task[i] = "done"
                 /\ df[i].RetryNote = results[i][1]
                 /\ df[i].EmailMatch = (IF results[i][2] THEN "Pass" ELSE "Fail")
            /\ mask' = {i \in Rows : df[i].EmailMatch = "Fail"}]_vars

\* C16 witness: a retry round is running with a comparison in flight.
C16_Witness ==
  /\ poolPc = "running"
  /\ r >= 1
  /\ in_flight # {}

\* A fetch_html call of the round did not return: it raised.
FetchRaised == \E i \in mask : task[i] = "raised" /\ calls[i].fetch > 0

\* C17 (as claimed): with concurrency >= 1 and every fetch returning, the
\* controller reaches its terminal state, after at most 1 + retries rounds,
\* and there the round index is above retries or no row is Fail.
C17_Terminates ==
  (ctlPc = "start" /\ concurrency >= 1) ~>
    \/ FetchRaised
    \/ /\ ctlPc = "done"
       /\ r <= retries + 1
       /\ (r > retries \/ fails_mask = {})

\* C18 (as claimed): once a round is over, every row it attempted has the
\* RetryNote and the EmailMatch of that attempt, both from the same verdict.
C18_LastAttemptOnly ==
  poolPc \in {"returned", "aborted"} =>
    \A i \in mask :
      task[i] = "done" =>
        /\ df[i].RetryNote = results[i][1]
        /\ df[i].EmailMatch = (IF results[i][2] THEN "Pass" ELSE "Fail")

\* C19: the table changes only on the step on which the gather returns with
\* every task of the round over and none in flight, and then only at the
\* selected rows, each getting its collected verdict; once a task of the
\* round has raised, no step changes the table.
C19_WriteBackAllOrNothing ==
  [][/\ df' # df =>
          /\ poolPc = "running"
          /\ poolPc' = "returned"
          /\ in_flight = {}
          /\ \A i \in mask :
               /\ task[i] = "done"
               /\ df'[i].RetryNote = results[i][1]
               /\ df'[i].EmailMatch = (IF results[i][2] THEN "Pass" ELSE "Fail")
          /\ \A i \in Rows \ mask : df'[i] = df[i]
     /\ (\E i \in mask : task[i] = "raised") => df' = df
     /\ poolPc' = "aborted" => df' = df]_vars

\* C19 witness: a round was aborted after a row had got the verdict Pass,
\* and the table does not show it.
C19_Witness ==
  /\ poolPc = "aborted"
  /\ \E i \in mask : task[i] = "done" /\ results[i][2] /\ df[i].EmailMatch # "Pass"

\* C20 (as claimed): while a round runs, the permits left plus the
\* comparisons in flight make concurrency, and at most 2 * concurrency pages
\* are open; when the round has returned, all permits are back and no page
\* is open.
C20_PoolResources ==
  /\ poolPc = "running" =>
       /\ sem + Cardinality(in_flight) = concurrency
       /\ pages <= 2 * concurrency
  /\ poolPc = "returned" =>
       /\ sem = concurrency
       /\ pages = 0

====
